---- MODULE Spec2Model ----
(***************************************************************************)
(* Dancing Links exact-cover solver (wbyoung/dance, index.js).             *)
(*                                                                         *)
(* The linked structure is an arena: `nodes` holds the node objects and    *)
(* `headers` the column headers plus the root, each object a record of its *)
(* fields, each link the id of the object it points to.  The recursion of  *)
(* recurse() is an explicit stack of frames; one action is one step of     *)
(* recurse between two calls of cover, uncover or recurse.                 *)
(***************************************************************************)
EXTENDS Integers, Sequences, FiniteSets, TLC

\* ------------------------------------------------------------------ bounds
MaxRows == 2
MaxCols == 2
MaxCap == 2

\* ------------------------------------------------------------- identities
\* An absent reference (null / undefined); object ids start at 1.
Nil == 0
\* The root header's id; the column headers are 1..n, column c of the
\* matrix (0-based in the source) being header c + 1.
Root == 0

\* ------------------------------------------------------------------ inputs
\* The matrix of the README and of the test.
Readme ==
  << <<1, 0, 0, 1, 0, 0, 1>>,
     <<1, 0, 0, 1, 0, 0, 0>>,
     <<0, 0, 0, 1, 1, 0, 1>>,
     <<0, 0, 1, 0, 1, 1, 0>>,
     <<0, 1, 1, 0, 0, 1, 1>>,
     <<0, 1, 0, 0, 0, 0, 1>> >>

\* Five rows over three columns: two covers of depth 3 are found before a
\* cover of depth 2 whose second row is the last row tried at depth 2.
FiveRows ==
  << <<1, 0, 0>>,
     <<1, 1, 0>>,
     <<0, 1, 0>>,
     <<0, 0, 1>>,
     <<0, 0, 1>> >>

\* Four rows over four columns with one exact cover, the last row alone; the
\* search first descends to depth 2 from row 2 and finds that branch dead.
DeadBranch ==
  << <<0, 0, 1, 1>>,
     <<0, 1, 0, 1>>,
     <<1, 0, 0, 0>>,
     <<1, 1, 1, 1>> >>

\* Three rows over two columns: the first cover found has one row, the last
\* one two, so the partial solution ends longer than the first solution.
ShortFirst ==
  << <<1, 1>>,
     <<1, 0>>,
     <<0, 1>> >>

Rect(r, c) == [1..r -> [1..c -> {0, 1}]]

Matrices ==
  UNION {Rect(r, c) : r \in 1..MaxRows, c \in 1..MaxCols} \cup {Readme, FiveRows, DeadBranch, ShortFirst}

\* options.maxSolutions: 0 (or absent) asks for every solution.
Caps == 0..MaxCap

\* ------------------------------------------------------------------- state
VARIABLES
  matrix,     \* solve's argument `matrix` of the call in progress (or last)
  max,        \* recurse's `max` (options.maxSolutions || 0)
  nodes,      \* node objects: id -> [up, down, left, right, header(, rowNumber)]
  headers,    \* header objects: id -> [length, prev, next, head]; Root -> [prev, next]
  stack,      \* the invocations of recurse in progress, innermost last
  solutions,  \* state.solutions
  partials,   \* state.partials
  covered,    \* history: the columns covered and not yet uncovered, oldest first
  lastOp,     \* history: the last cover / uncover call, <<op, column>>
  returned,   \* history: the first call of solve that returned and the latest
              \* later one, each [matrix, max, result]
  pc,         \* where solve is: "idle", "rows" (second loop) or "search"
  rowIndex,   \* the second loop's rowIndex
  entered     \* history: per invocation of recurse in progress, the structure
              \* and the covered columns at its entry

vars ==
  <<matrix, max, nodes, headers, stack, solutions, partials, covered, lastOp,
    returned, pc, rowIndex, entered>>

\* ---------------------------------------------------------------- sequencing
\* Statement order.  The({rest(S1) : S1 \in {first}}) is rest(first), with
\* `first`, the structure a statement or a loop iteration leaves, computed
\* once and the rest run on that value.
The(values) == CHOOSE value \in values : TRUE

\* --------------------------------------------------------------- the builder
\* Mutant of createNode: the node is linked before `left` in its row ring.
createNodeBefore(ns, column, left, up) ==
  LET node == Len(ns) + 1
      l == IF left = Nil THEN node ELSE left
      u == IF up = Nil THEN node ELSE up
      n0 == Append(ns, [left   |-> IF left = Nil THEN node ELSE Nil,
                        right  |-> IF left = Nil THEN node ELSE Nil,
                        up     |-> IF up = Nil THEN node ELSE Nil,
                        down   |-> IF up = Nil THEN node ELSE Nil,
                        header |-> column])
      n1 == [n0 EXCEPT ![node].right = l]
      n2 == [n1 EXCEPT ![node].left = n1[l].left]
      n3 == [n2 EXCEPT ![n2[l].left].right = node]
      n4 == [n3 EXCEPT ![l].left = node]
      n5 == [n4 EXCEPT ![node].up = u]
      n6 == [n5 EXCEPT ![node].down = n5[u].down]
      n7 == [n6 EXCEPT ![n6[u].down].up = node]
  IN  [n7 EXCEPT ![u].down = node]

\* createNode(options): a node linked after `left` in its row ring and after
\* `up` in its column ring; an absent neighbour is the node itself.
createNode(ns, column, left, up) ==
  LET node == Len(ns) + 1
      l == IF left = Nil THEN node ELSE left
      u == IF up = Nil THEN node ELSE up
      n0 == Append(ns, [left   |-> IF left = Nil THEN node ELSE Nil,
                        right  |-> IF left = Nil THEN node ELSE Nil,
                        up     |-> IF up = Nil THEN node ELSE Nil,
                        down   |-> IF up = Nil THEN node ELSE Nil,
                        header |-> column])
      n1 == [n0 EXCEPT ![node].left = l]
      n2 == [n1 EXCEPT ![node].right = n1[l].right]
      n3 == [n2 EXCEPT ![n2[l].right].left = node]
      n4 == [n3 EXCEPT ![l].right = node]
      n5 == [n4 EXCEPT ![node].up = u]
      n6 == [n5 EXCEPT ![node].down = n5[u].down]
      n7 == [n6 EXCEPT ![n6[u].down].up = node]
  IN  [n7 EXCEPT ![u].down = node]

\* solve, first loop: one header per column, spliced after the previous one,
\* its head node spliced after the previous header's head node.
RECURSIVE buildColumns(_, _, _, _)
buildColumns(i, n, prev, S) ==
  IF i > n THEN S
  ELSE
    LET column == Len(S.headers) + 1
        p == IF prev = Nil THEN column ELSE prev
        h0 == Append(S.headers,
                     [length |-> 0,
                      prev   |-> p,
                      next   |-> IF prev = Nil THEN column ELSE S.headers[p].next,
                      head   |-> Nil])
        n1 == createNode(S.nodes, column, h0[p].head, Nil)
        h1 == [h0 EXCEPT ![column].head = Len(n1)]
        h2 == [h1 EXCEPT ![h1[p].next].prev = column]
        h3 == [h2 EXCEPT ![p].next = column]
    IN  The({buildColumns(i + 1, n, column, S1) :
               S1 \in {[nodes |-> n1, headers |-> h3]}})

\* Mutant of truthy: a node is created for every cell, zero or not.
anyValue(value) == TRUE

\* `if (value)` on a cell of the matrix.
truthy(value) == value # 0

\* solve, second loop, one call of the outer forEach's callback: one node per
\* nonzero cell of row r (rowIndex r - 1), appended at the bottom of its
\* column and at the right of its row; from cell c on.
RECURSIVE buildRow(_, _, _, _, _)
buildRow(m, r, c, left, S) ==
  IF c > Len(m[r]) THEN S
  ELSE IF truthy(m[r][c])
    THEN
      LET column == c
          n1 == createNode(S.nodes, column, left,
                           S.nodes[S.headers[column].head].up)
          node == Len(n1)
          n2 == [n1 EXCEPT ![node] = [rowNumber |-> r - 1] @@ @]
          h1 == [S.headers EXCEPT ![column].length = @ + 1]
      IN  The({buildRow(m, r, c + 1, T.left, [nodes |-> T.nodes, headers |-> T.headers]) :
                 T \in {[nodes |-> n2, headers |-> h1, left |-> node]}})
    ELSE buildRow(m, r, c + 1, left, S)

\* solve, end: the root is spliced in before the first column.
addRoot(S) ==
  LET h0 == (Root :> [prev |-> S.headers[1].prev, next |-> 1]) @@ S.headers
      h1 == [h0 EXCEPT ![h0[1].prev].next = Root]
      h2 == [h1 EXCEPT ![1].prev = Root]
  IN  [nodes |-> S.nodes, headers |-> h2]

\* --------------------------------------------------------- cover / uncover
\* Mutant of coverRow: the column's length is not counted down.
RECURSIVE coverRowLengthKept(_, _, _)
coverRowLengthKept(S, rowNode, colNode) ==
  IF colNode = rowNode THEN S
  ELSE
    LET n1 == [S.nodes EXCEPT ![S.nodes[colNode].up].down = S.nodes[colNode].down]
        n2 == [n1 EXCEPT ![n1[colNode].down].up = n1[colNode].up]
    IN  The({coverRowLengthKept(S1, rowNode, S1.nodes[colNode].right) :
               S1 \in {[nodes |-> n2, headers |-> S.headers]}})

\* cover's inner eachNode(rowNode, 'right', ...), from colNode on.
RECURSIVE coverRow(_, _, _)
coverRow(S, rowNode, colNode) ==
  IF colNode = rowNode THEN S
  ELSE
    LET n1 == [S.nodes EXCEPT ![S.nodes[colNode].up].down = S.nodes[colNode].down]
        n2 == [n1 EXCEPT ![n1[colNode].down].up = n1[colNode].up]
        h1 == [S.headers EXCEPT ![n2[colNode].header].length = @ - 1]
    IN  The({coverRow(S1, rowNode, S1.nodes[colNode].right) :
               S1 \in {[nodes |-> n2, headers |-> h1]}})

\* cover's outer eachNode(column.head, 'down', ...), from rowNode on.
RECURSIVE coverRows(_, _, _)
coverRows(S, head, rowNode) ==
  IF rowNode = head THEN S
  ELSE
    The({coverRows(S1, head, S1.nodes[rowNode].down) :
           S1 \in {coverRow(S, rowNode, S.nodes[rowNode].right)}})

cover(S, column) ==
  LET h1 == [S.headers EXCEPT ![S.headers[column].next].prev = S.headers[column].prev]
      h2 == [h1 EXCEPT ![h1[column].prev].next = h1[column].next]
      head == h2[column].head
  IN  coverRows([nodes |-> S.nodes, headers |-> h2], head, S.nodes[head].down)

\* Mutant of uncoverRow: `colNode.down.up = colNode` is left out.
RECURSIVE uncoverRowDownOnly(_, _, _)
uncoverRowDownOnly(S, rowNode, colNode) ==
  IF colNode = rowNode THEN S
  ELSE
    LET h1 == [S.headers EXCEPT ![S.nodes[colNode].header].length = @ + 1]
        n1 == [S.nodes EXCEPT ![S.nodes[colNode].up].down = colNode]
    IN  The({uncoverRowDownOnly(S1, rowNode, S1.nodes[colNode].left) :
               S1 \in {[nodes |-> n1, headers |-> h1]}})

\* Mutant of uncoverRow: the column's length is not counted up again.
RECURSIVE uncoverRowLengthLost(_, _, _)
uncoverRowLengthLost(S, rowNode, colNode) ==
  IF colNode = rowNode THEN S
  ELSE
    LET n1 == [S.nodes EXCEPT ![S.nodes[colNode].up].down = colNode]
        n2 == [n1 EXCEPT ![n1[colNode].down].up = colNode]
    IN  The({uncoverRowLengthLost(S1, rowNode, S1.nodes[colNode].left) :
               S1 \in {[nodes |-> n2, headers |-> S.headers]}})

\* uncover's inner eachNode(rowNode, 'left', ...), from colNode on.
RECURSIVE uncoverRow(_, _, _)
uncoverRow(S, rowNode, colNode) ==
  IF colNode = rowNode THEN S
  ELSE
    LET h1 == [S.headers EXCEPT ![S.nodes[colNode].header].length = @ + 1]
        n1 == [S.nodes EXCEPT ![S.nodes[colNode].up].down = colNode]
        n2 == [n1 EXCEPT ![n1[colNode].down].up = colNode]
    IN  The({uncoverRow(S1, rowNode, S1.nodes[colNode].left) :
               S1 \in {[nodes |-> n2, headers |-> h1]}})

\* uncover's outer eachNode(column.head, 'up', ...), from rowNode on.
RECURSIVE uncoverRows(_, _, _)
uncoverRows(S, head, rowNode) ==
  IF rowNode = head THEN S
  ELSE
    The({uncoverRows(S1, head, S1.nodes[rowNode].up) :
           S1 \in {uncoverRow(S, rowNode, S.nodes[rowNode].left)}})

\* Mutant of uncover: the column is not spliced back into the header ring.
uncoverUnlinked(S, column) ==
  LET head == S.headers[column].head
  IN  uncoverRows(S, head, S.nodes[head].up)

uncover(S, column) ==
  LET head == S.headers[column].head
      S1 == uncoverRows(S, head, S.nodes[head].up)
      h1 == [S1.headers EXCEPT ![S1.headers[column].next].prev = column]
      h2 == [h1 EXCEPT ![h1[column].prev].next = column]
  IN  [nodes |-> S1.nodes, headers |-> h2]

\* ------------------------------------------------------------------ recurse
\* recurse's eachHeader(root, 'next', ...): the first header of smallest
\* length, walking the ring from h on.
\* Mutant of findBest: `<=` for `<`, so that the last smallest header wins.
RECURSIVE findBestLast(_, _, _, _)
findBestLast(hs, h, best, smallest) ==
  IF h = Root THEN best
  ELSE IF best = Nil \/ hs[h].length <= smallest
    THEN findBestLast(hs, hs[h].next, h, hs[h].length)
    ELSE findBestLast(hs, hs[h].next, best, smallest)

\* Mutant of findBest: the first header met is kept, whatever its length.
findBestFirst(hs, h, best, smallest) == IF best = Nil THEN h ELSE best

RECURSIVE findBest(_, _, _, _)
findBest(hs, h, best, smallest) ==
  IF h = Root THEN best
  ELSE IF best = Nil \/ hs[h].length < smallest
    THEN findBest(hs, hs[h].next, h, hs[h].length)
    ELSE findBest(hs, hs[h].next, best, smallest)

chooseBest(hs) == findBest(hs, hs[Root].next, Nil, 0)

\* Mutant of ringEmpty: the ring counts as empty when one header is left.
ringAlmostEmpty(hs) == hs[Root].next = hs[Root].prev

\* `root.next === root`: no column is left in the header ring.
ringEmpty(hs) == hs[Root].next = Root

\* Mutant of nextNode: the loop over the rows of a column does not advance.
nextNodeStuck(ns, n, direction) ==
  IF direction = "down" THEN n ELSE ns[n][direction]

\* Mutant of nextNode: the loop that undoes a row's covers walks rightwards.
nextNodeRightwards(ns, n, direction) ==
  IF direction = "left" THEN ns[n].right ELSE ns[n][direction]

\* eachNode's `n = n[direction]`, for the loops whose callback is a step of
\* recurse (the loop variable lives in the frame).
nextNode(ns, n, direction) == ns[n][direction]

\* `state.solutions || []` and `state.partials || []` of the outermost
\* invocation, which is given no state.
noSolutions == <<>>

\* Mutant of noPartials: the buffer of the call before is used again.
keptPartials == partials

noPartials == <<>>

\* Mutant of capMet: the cap counts as met one solution early.
capMetEarly(mx, sols) == mx # 0 /\ Len(sols) + 1 >= mx

\* Mutant of capMet: `>` for `===`.
capExceeded(mx, sols) == mx # 0 /\ Len(sols) > mx

\* `max && solutions.length === max`
capMet(mx, sols) == mx # 0 /\ Len(sols) = mx

\* Mutant of pushSolution: the solution found is not recorded.
pushNothing(sols, parts) == sols

\* `solutions.push(partials.slice(0))`
pushSolution(sols, parts) == Append(sols, parts)

\* `partials[k] = rowNode.rowNumber`; k never exceeds the array's length.
setPartial(parts, k, row) ==
  IF k < Len(parts) THEN [parts EXCEPT ![k + 1] = row] ELSE Append(parts, row)

\* A fresh invocation of recurse at depth k.
frame(k) ==
  [k |-> k, best |-> Nil, rowNode |-> Nil, colNode |-> Nil, pc |-> "entry"]

top == stack[Len(stack)]

setTop(f) == [stack EXCEPT ![Len(stack)] = f]

\* `return solutions`: the innermost invocation ends.  Its caller goes on
\* with eachNode(rowNode, 'left', ...); the outermost one ends solve.
return(ns, result) ==
  /\ entered' = SubSeq(entered, 1, Len(entered) - 1)
  /\ IF Len(stack) = 1
       THEN /\ stack' = <<>>
            /\ pc' = "idle"
            /\ returned' = Append(returned,
                                  [matrix |-> matrix, max |-> max, result |-> result])
       ELSE LET caller == stack[Len(stack) - 1]
            IN  /\ stack' = [SubSeq(stack, 1, Len(stack) - 1) EXCEPT
                               ![Len(stack) - 1] =
                                  [caller EXCEPT !.pc = "left",
                                                 !.colNode = ns[caller.rowNode].left]]
                /\ UNCHANGED <<returned, pc>>

\* ------------------------------------------------------------------- calls
RemoveRow(m, r) == [i \in 1..(Len(m) - 1) |-> IF i < r THEN m[i] ELSE m[i + 1]]

ZeroRows(m) == {r \in 1..Len(m) : \A c \in 1..Len(m[r]) : m[r][c] = 0}

\* The calls a first call is compared with: the same call again, the same
\* matrix without a cap, and the matrix less one of its all-zero rows.
FollowUps(first) ==
  {<<first.matrix, first.max>>, <<first.matrix, 0>>}
    \cup {<<RemoveRow(first.matrix, r), first.max>> :
            r \in {z \in ZeroRows(first.matrix) : Len(first.matrix) > 1}}

Inputs ==
  IF returned = <<>> THEN Matrices \X Caps ELSE FollowUps(returned[1])

Init ==
  /\ matrix = <<>>
  /\ max = 0
  /\ nodes = <<>>
  /\ headers = <<>>
  /\ stack = <<>>
  /\ solutions = <<>>
  /\ partials = <<>>
  /\ covered = <<>>
  /\ lastOp = <<"none", Nil>>
  /\ returned = <<>>
  /\ pc = "idle"
  /\ rowIndex = 0
  /\ entered = <<>>

\* solve(matrix, options) is called (Next: while no call is in progress): the
\* first loop builds the column headers.
Solve(m, cap) ==
  /\ LET S == buildColumns(1, Len(m[1]), Nil, [nodes |-> <<>>, headers |-> <<>>])
     IN  /\ nodes' = S.nodes
         /\ headers' = S.headers
  /\ matrix' = m
  /\ max' = cap
  /\ stack' = <<>>
  /\ covered' = <<>>
  /\ lastOp' = <<"none", Nil>>
  /\ pc' = "rows"
  /\ rowIndex' = 0
  /\ returned' = IF returned = <<>> THEN <<>> ELSE <<returned[1]>>
  /\ entered' = <<>>
  /\ UNCHANGED <<solutions, partials>>

\* solve, second loop: the nodes of row rowIndex.
SolveRow ==
  /\ pc = "rows"
  /\ rowIndex < Len(matrix)
  /\ LET S == buildRow(matrix, rowIndex + 1, 1, Nil,
                       [nodes |-> nodes, headers |-> headers])
     IN  /\ nodes' = S.nodes
         /\ headers' = S.headers
  /\ rowIndex' = rowIndex + 1
  /\ UNCHANGED <<matrix, max, stack, solutions, partials, covered, lastOp,
                 returned, pc, entered>>

\* solve, end: the root is created and `recurse(root, options)` is entered
\* with no state: k = 0, no solution, no partial solution.
SolveSearch ==
  /\ pc = "rows"
  /\ rowIndex = Len(matrix)
  /\ LET S == addRoot([nodes |-> nodes, headers |-> headers])
     IN  /\ nodes' = S.nodes
         /\ headers' = S.headers
         /\ entered' = <<[nodes |-> S.nodes, headers |-> S.headers,
                          covered |-> covered]>>
  /\ solutions' = noSolutions
  /\ partials' = noPartials
  /\ stack' = <<frame(0)>>
  /\ pc' = "search"
  /\ UNCHANGED <<matrix, max, covered, lastOp, returned, rowIndex>>

\* recurse, `if (max && solutions.length === max) return solutions`
RecurseCapMet ==
  /\ pc = "search"
  /\ top.pc = "entry"
  /\ capMet(max, solutions)
  /\ return(nodes, solutions)
  /\ lastOp' = <<"none", Nil>>
  /\ UNCHANGED <<matrix, max, nodes, headers, solutions, partials, covered, rowIndex>>

\* recurse, `if (root.next === root) solutions.push(partials.slice(0))`
RecurseFound ==
  /\ pc = "search"
  /\ top.pc = "entry"
  /\ ~capMet(max, solutions)
  /\ ringEmpty(headers)
  /\ solutions' = pushSolution(solutions, partials)
  /\ return(nodes, solutions')
  /\ lastOp' = <<"none", Nil>>
  /\ UNCHANGED <<matrix, max, nodes, headers, partials, covered, rowIndex>>

\* recurse, the chosen column has no row left: `best.length > 0` fails.
RecurseDead ==
  /\ pc = "search"
  /\ top.pc = "entry"
  /\ ~capMet(max, solutions)
  /\ ~ringEmpty(headers)
  /\ LET best == chooseBest(headers)
     IN  ~(best # Nil /\ headers[best].length > 0)
  /\ return(nodes, solutions)
  /\ lastOp' = <<"none", Nil>>
  /\ UNCHANGED <<matrix, max, nodes, headers, solutions, partials, covered, rowIndex>>

\* recurse, `cover(best)` and the start of eachNode(best.head, 'down', ...)
RecurseCover ==
  /\ pc = "search"
  /\ top.pc = "entry"
  /\ ~capMet(max, solutions)
  /\ ~ringEmpty(headers)
  /\ LET best == chooseBest(headers)
         S == cover([nodes |-> nodes, headers |-> headers], best)
     IN  /\ best # Nil /\ headers[best].length > 0
         /\ nodes' = S.nodes
         /\ headers' = S.headers
         /\ stack' = setTop([top EXCEPT !.best = best,
                                        !.rowNode = S.nodes[S.headers[best].head].down,
                                        !.pc = "rows"])
         /\ covered' = Append(covered, best)
         /\ lastOp' = <<"cover", best>>
  /\ UNCHANGED <<matrix, max, solutions, partials, returned, pc, rowIndex, entered>>

\* The row loop's body begins: `partials[k] = rowNode.rowNumber`.
RowChoose ==
  /\ pc = "search"
  /\ top.pc = "rows"
  /\ top.rowNode # headers[top.best].head
  /\ partials' = setPartial(partials, top.k, nodes[top.rowNode].rowNumber)
  /\ stack' = setTop([top EXCEPT !.colNode = nodes[top.rowNode].right,
                                 !.pc = "right"])
  /\ lastOp' = <<"none", Nil>>
  /\ UNCHANGED <<matrix, max, nodes, headers, solutions, covered, returned, pc,
                 rowIndex, entered>>

\* eachNode(rowNode, 'right', ...): `cover(colNode.header)`
RowCover ==
  /\ pc = "search"
  /\ top.pc = "right"
  /\ top.colNode # top.rowNode
  /\ LET column == nodes[top.colNode].header
         S == cover([nodes |-> nodes, headers |-> headers], column)
     IN  /\ nodes' = S.nodes
         /\ headers' = S.headers
         /\ stack' = setTop([top EXCEPT !.colNode = nextNode(S.nodes, top.colNode, "right")])
         /\ covered' = Append(covered, column)
         /\ lastOp' = <<"cover", column>>
  /\ UNCHANGED <<matrix, max, solutions, partials, returned, pc, rowIndex, entered>>

\* `recurse(root, opts, {k: k + 1, solutions: solutions, partials: partials})`
RecurseCall ==
  /\ pc = "search"
  /\ top.pc = "right"
  /\ top.colNode = top.rowNode
  /\ stack' = Append(setTop([top EXCEPT !.pc = "called"]), frame(top.k + 1))
  /\ entered' = Append(entered, [nodes |-> nodes, headers |-> headers,
                                  covered |-> covered])
  /\ lastOp' = <<"none", Nil>>
  /\ UNCHANGED <<matrix, max, nodes, headers, solutions, partials, covered,
                 returned, pc, rowIndex>>

\* eachNode(rowNode, 'left', ...): `uncover(colNode.header)`
RowUncover ==
  /\ pc = "search"
  /\ top.pc = "left"
  /\ top.colNode # top.rowNode
  /\ LET column == nodes[top.colNode].header
         S == uncover([nodes |-> nodes, headers |-> headers], column)
     IN  /\ nodes' = S.nodes
         /\ headers' = S.headers
         /\ stack' = setTop([top EXCEPT !.colNode = nextNode(S.nodes, top.colNode, "left")])
         /\ covered' = SubSeq(covered, 1, Len(covered) - 1)
         /\ lastOp' = <<"uncover", column>>
  /\ UNCHANGED <<matrix, max, solutions, partials, returned, pc, rowIndex, entered>>

\* The row loop's body ends: on to the next row of the column, `n = n.down`.
RowNext ==
  /\ pc = "search"
  /\ top.pc = "left"
  /\ top.colNode = top.rowNode
  /\ stack' = setTop([top EXCEPT !.rowNode = nextNode(nodes, top.rowNode, "down"),
                                 !.pc = "rows"])
  /\ lastOp' = <<"none", Nil>>
  /\ UNCHANGED <<matrix, max, nodes, headers, solutions, partials, covered,
                 returned, pc, rowIndex, entered>>

\* The row loop is over: `uncover(best)` and `return solutions`.
RecurseUncover ==
  /\ pc = "search"
  /\ top.pc = "rows"
  /\ top.rowNode = headers[top.best].head
  /\ LET S == uncover([nodes |-> nodes, headers |-> headers], top.best)
     IN  /\ nodes' = S.nodes
         /\ headers' = S.headers
         /\ return(S.nodes, solutions)
  /\ covered' = SubSeq(covered, 1, Len(covered) - 1)
  /\ lastOp' = <<"uncover", top.best>>
  /\ UNCHANGED <<matrix, max, solutions, partials, rowIndex>>

\* One step of the search in progress.
Step ==
  \/ RecurseCapMet
  \/ RecurseFound
  \/ RecurseDead
  \/ RecurseCover
  \/ RowChoose
  \/ RowCover
  \/ RecurseCall
  \/ RowUncover
  \/ RowNext
  \/ RecurseUncover

Next ==
  \/ pc = "idle" /\ \E in \in Inputs : Solve(in[1], in[2])
  \/ SolveRow
  \/ SolveSearch
  \/ Step

Spec == Init /\ [][Next]_vars

\* solve is synchronous: once called, it runs on until it returns.
FairSpec == Spec /\ WF_vars(SolveRow \/ SolveSearch \/ Step)

\* ------------------------------------------------------ what the claims use
\* The calls that returned, as indices of `returned`.
Calls == 1..Len(returned)

\* Row indices are 0-based, as in the source: row i is m[i + 1].
RowIds(m) == 0..(Len(m) - 1)

ColumnIds(m) == 1..Len(m[1])

\* A returned solution's entries, as a set.
AsSet(sol) == {sol[t] : t \in 1..Len(sol)}

\* The sum, in column c, of the rows a solution lists (each entry counted).
RECURSIVE ColumnSum(_, _, _)
ColumnSum(m, sol, c) ==
  IF sol = <<>> THEN 0 ELSE m[Head(sol) + 1][c] + ColumnSum(m, Tail(sol), c)

HasNonzeroCell(m, i) == \E c \in ColumnIds(m) : m[i + 1][c] # 0

IsExactCover(m, R) ==
  \A c \in ColumnIds(m) : Cardinality({i \in R : m[i + 1][c] # 0}) = 1

\* The exact covers made of rows that have a nonzero cell: the ones the
\* structure can represent (a row without nonzero cell has no node).
ExactCovers(m) ==
  {R \in SUBSET {i \in RowIds(m) : HasNonzeroCell(m, i)} : IsExactCover(m, R)}

ResultSets(result) == {AsSet(result[j]) : j \in 1..Len(result)}

\* C1 (Exactness): in every solution of every returned list, the rows listed,
\* summed column-wise, give exactly 1 in every column of the matrix.
Exactness ==
  \A i \in Calls :
    \A j \in 1..Len(returned[i].result) :
      \A c \in ColumnIds(returned[i].matrix) :
        ColumnSum(returned[i].matrix, returned[i].result[j], c) = 1

\* C2 (Completeness): without a cap, every exact cover appears, as a set of
\* row indices, among the returned solutions.  Stated for the covers made of
\* rows with a nonzero cell only, which the claim includes.
Completeness ==
  \A i \in Calls :
    returned[i].max = 0 =>
      ExactCovers(returned[i].matrix) \subseteq ResultSets(returned[i].result)

\* C3 (Cap respected): with maxSolutions = m > 0, exactly m solutions are
\* returned when at least m exact covers exist, all the exact covers are
\* returned when fewer exist, and the accumulator never holds more than m.
CapRespected ==
  /\ (pc = "search" /\ max > 0) => Len(solutions) <= max
  /\ \A i \in Calls :
       LET m == returned[i].max
           K == ExactCovers(returned[i].matrix)
           result == returned[i].result
       IN  m > 0 =>
             IF Cardinality(K) >= m
             THEN Len(result) = m
             ELSE Len(result) = Cardinality(K) /\ ResultSets(result) = K

\* C4 (No false positives): every entry of every returned solution is a row
\* index of the matrix, and no returned solution lists a row index twice.
NoFalsePositives ==
  \A i \in Calls :
    \A j \in 1..Len(returned[i].result) :
      LET sol == returned[i].result[j]
      IN  /\ \A t \in 1..Len(sol) : sol[t] \in RowIds(returned[i].matrix)
          /\ \A t, u \in 1..Len(sol) : t # u => sol[t] # sol[u]

\* C5 (Concrete scenario): solve(Readme) with no cap returns [[1, 3, 5]].
ReadmeScenario ==
  \A i \in Calls :
    (returned[i].matrix = Readme /\ returned[i].max = 0) =>
      returned[i].result = << <<1, 3, 5>> >>

ReadmeSolved ==
  \E i \in Calls :
    /\ returned[i].matrix = Readme
    /\ returned[i].max = 0
    /\ Len(returned[i].result) = 1

\* C6 (Empty case): a matrix with a column of zeros yields the empty list,
\* whatever the other columns hold and whatever the cap.
HasZeroColumn(m) == \E c \in ColumnIds(m) : \A i \in RowIds(m) : m[i + 1][c] = 0

EmptyCase ==
  \A i \in Calls :
    HasZeroColumn(returned[i].matrix) => returned[i].result = <<>>

\* A call returned for a matrix with a column of zeros beside a column that
\* some row covers, under a cap.
EmptyCaseReturned ==
  \E i \in Calls :
    /\ HasZeroColumn(returned[i].matrix)
    /\ \E r \in RowIds(returned[i].matrix) : HasNonzeroCell(returned[i].matrix, r)
    /\ returned[i].max > 0
    /\ returned[i].result = <<>>

\* The cap is set and met while solve is searching.
CapMetNow == pc = "search" /\ max > 0 /\ Len(solutions) = max

\* C7 (Search stops at the cap), as claimed: once the m-th solution has been
\* recorded, no cover is performed and no candidate row is written into the
\* partial solution before solve returns.
StopsAtCap ==
  [][CapMetNow => ~(RecurseCover \/ RowCover \/ RowChoose)]_vars

\* C7, amended: once the m-th solution has been recorded, no solution is
\* recorded any more and no invocation of recurse gets past its cap check (it
\* neither records, nor chooses, nor covers a column); only the row loops
\* already in progress run on.
NoNewSearchAtCap ==
  [][CapMetNow =>
       /\ solutions' = solutions
       /\ ~(RecurseFound \/ RecurseDead \/ RecurseCover)]_vars

\* The cap is met and a row loop in progress has just covered a column.
CoverAfterCap == CapMetNow /\ lastOp[1] = "cover"

\* A list of solutions of the matrix less its row r (1-based), with the row
\* indices of the full matrix.
Renumber(result, r) ==
  [j \in 1..Len(result) |->
     [t \in 1..Len(result[j]) |->
        IF result[j][t] < r - 1 THEN result[j][t] ELSE result[j][t] + 1]]

\* The later call was given the first call's matrix less its all-zero row r.
LessZeroRow(r) ==
  /\ Len(returned) = 2
  /\ Len(returned[1].matrix) > 1
  /\ r \in ZeroRows(returned[1].matrix)
  /\ returned[2].matrix = RemoveRow(returned[1].matrix, r)
  /\ returned[2].max = returned[1].max

\* C8 (All-zero rows are invisible): the index of a row without nonzero cell
\* is in no returned solution, and the returned list is the list returned for
\* the matrix without that row, the other rows keeping their indices.
ZeroRowsInvisible ==
  /\ \A i \in Calls :
       \A j \in 1..Len(returned[i].result) :
         \A r \in ZeroRows(returned[i].matrix) :
           (r - 1) \notin AsSet(returned[i].result[j])
  /\ Len(returned) = 2 =>
       \A r \in 1..Len(returned[1].matrix) :
         LessZeroRow(r) => returned[1].result = Renumber(returned[2].result, r)

\* Both calls returned, the later one for the matrix less an all-zero row
\* that stood before a row of a returned solution.
ZeroRowDropped ==
  /\ Len(returned) = 2
  /\ \E r \in 1..Len(returned[1].matrix) :
       /\ LessZeroRow(r)
       /\ returned[1].result # <<>>
       /\ \E j \in 1..Len(returned[1].result) :
            \E t \in 1..Len(returned[1].result[j]) : returned[1].result[j][t] > r - 1

\* C9 (Termination): every call of solve returns.
Termination == (pc # "idle") ~> (pc = "idle")

\* A call returned after a search that went two levels deep more than once.
SearchReturned ==
  /\ pc = "idle"
  /\ \E i \in Calls :
       /\ Len(returned[i].result) >= 2
       /\ \E j \in 1..Len(returned[i].result) : Len(returned[i].result[j]) >= 2

\* The two calls were given the same matrix and the same cap.
SameCall ==
  /\ Len(returned) = 2
  /\ returned[2].matrix = returned[1].matrix
  /\ returned[2].max = returned[1].max

\* C10 (Idempotence / statelessness): a second call with the same matrix
\* returns the same solutions as the first (the same list, hence the same
\* set of sets of row indices); nothing of the first call influences it.
Idempotence ==
  SameCall =>
    /\ returned[2].result = returned[1].result
    /\ ResultSets(returned[2].result) = ResultSets(returned[1].result)

\* The same uncapped call returned twice, with more than one solution.
SolvedTwice ==
  /\ SameCall
  /\ returned[1].max = 0
  /\ Len(returned[1].result) >= 2

\* The matrix of one row and one column whose cell is 1.
OneByOne == << <<1>> >>

\* C11 (Single-row case): solve of the one-by-one matrix whose cell is 1
\* returns [[0]], with or without a cap.
SingleRowCase ==
  \A i \in Calls :
    returned[i].matrix = OneByOne => returned[i].result = << <<0>> >>

\* A call for the one-by-one matrix of 1 returned a solution.
OneByOneSolved ==
  \E i \in Calls :
    /\ returned[i].matrix = OneByOne
    /\ returned[i].max = 0
    /\ Len(returned[i].result) = 1

\* The row chosen at depth j on the current search path: the row the
\* invocation at depth j is at in its row loop.
PathRow(j) == nodes[stack[j + 1].rowNode].rowNumber

\* C12 (Recorded solution equals the current path): when recurse at depth k
\* finds the header ring empty and appends a solution, the appended sequence
\* has length k and its j-th entry is the row chosen at depth j on the
\* current path.
RecordedIsPath ==
  [][RecurseFound =>
       LET k == top.k
           sol == solutions'[Len(solutions')]
       IN  /\ Len(sol) = k
           /\ \A j \in 0..(k - 1) : sol[j + 1] = PathRow(j)]_vars

\* The headers met walking from h in a direction until the root is met.
RECURSIVE HeaderWalk(_, _, _)
HeaderWalk(hs, h, direction) ==
  IF h = Root THEN <<>> ELSE <<h>> \o HeaderWalk(hs, hs[h][direction], direction)

\* The headers linked in the root's ring, in the order of `next`.
RingOrder(hs) == HeaderWalk(hs, hs[Root].next, "next")

\* The structure as it is now.
Structure == [nodes |-> nodes, headers |-> headers]

\* C13 (cover/uncover round trip): in every state of a search, for every
\* header c linked in the header ring, cover(c) followed by uncover(c) leaves
\* every link and every length as it was.
CoverUncoverRoundTrip ==
  pc = "search" =>
    \A c \in AsSet(RingOrder(headers)) :
      uncover(cover(Structure, c), c) = Structure

\* In the middle of a search, with a column covered already, a linked column
\* of two rows or more whose cover changes both nodes and headers.
RoundTripTried ==
  /\ pc = "search"
  /\ covered # <<>>
  /\ \E c \in AsSet(RingOrder(headers)) :
       /\ headers[c].length >= 2
       /\ cover(Structure, c).nodes # nodes
       /\ cover(Structure, c).headers # headers

\* This step ends the innermost invocation of recurse.
Returning == pc = "search" /\ Len(stack') < Len(stack)

\* C14 (Structure restored on return): whenever an invocation of recurse
\* returns, every link and every column length is as it was at the entry of
\* that invocation; for the outermost one, as the builder left them.
StructureRestored ==
  [][Returning =>
       /\ nodes' = entered[Len(entered)].nodes
       /\ headers' = entered[Len(entered)].headers]_vars

\* solve has returned a solution of two rows or more, its outermost
\* invocation ending with `uncover(best)`.
RestoredAtReturn ==
  /\ pc = "idle"
  /\ lastOp[1] = "uncover"
  /\ returned # <<>>
  /\ \E j \in 1..Len(returned[Len(returned)].result) :
       Len(returned[Len(returned)].result[j]) >= 2

\* C15 (Stack discipline of cover and uncover): every uncover is applied to
\* the column of the most recent cover not yet undone, and when an invocation
\* of recurse returns, every cover made since its entry has been undone.
WellNested ==
  [][/\ (RowUncover \/ RecurseUncover) =>
          /\ covered # <<>>
          /\ lastOp'[2] = covered[Len(covered)]
     /\ Returning => covered' = entered[Len(entered)].covered]_vars

\* A column was just uncovered while two or more other covers are still to
\* be undone.
UncoveredInnermost == lastOp[1] = "uncover" /\ Len(covered) >= 2

\* The nodes met walking from n in a direction until `start` is met.
RECURSIVE NodeWalk(_, _, _, _)
NodeWalk(ns, start, n, direction) ==
  IF n = start THEN <<>>
  ELSE <<n>> \o NodeWalk(ns, start, ns[n][direction], direction)

\* The nodes of column c's vertical ring, walking down from its head.
ColumnNodes(ns, hs, c) == NodeWalk(ns, hs[c].head, ns[hs[c].head].down, "down")

\* Every header linked in the root's ring has the length of its vertical ring.
SizeIsCount ==
  pc = "search" =>
    \A c \in AsSet(RingOrder(headers)) :
      headers[c].length = Len(ColumnNodes(nodes, headers, c))

\* A step leaves the length and the vertical links of every column that is
\* covered before and after it as they are.
CoveredFrozen ==
  (pc = "search" /\ pc' = "search") =>
    \A c \in AsSet(covered) \cap AsSet(covered') :
      /\ headers'[c].length = headers[c].length
      /\ headers'[c].head = headers[c].head
      /\ \A n \in 1..Len(nodes) :
           nodes[n].header = c =>
             /\ nodes'[n].up = nodes[n].up
             /\ nodes'[n].down = nodes[n].down

\* C16 (Column size invariant): between the cover and uncover operations of
\* a search, every header linked in the root's ring has a length equal to
\* the number of nodes met walking down from its head back to its head, and
\* the length and vertical ring of a covered header do not change until it
\* is uncovered.
ColumnSizes == []SizeIsCount /\ [][CoveredFrozen]_vars

\* A column was just covered on top of another covered column of one row or
\* more, with a column of one row or more still linked.
CoveredOnCovered ==
  /\ pc = "search"
  /\ lastOp[1] = "cover"
  /\ Len(covered) >= 2
  /\ headers[covered[1]].length >= 1
  /\ \E c \in AsSet(RingOrder(headers)) : headers[c].length >= 1

\* The smallest length among the headers of a ring.
SmallestLength(hs, ring) ==
  CHOOSE s \in {hs[ring[i]].length : i \in 1..Len(ring)} :
    \A i \in 1..Len(ring) : s <= hs[ring[i]].length

\* The first header of a ring, in its order, that has the smallest length.
FirstSmallest(hs, ring) ==
  ring[CHOOSE i \in 1..Len(ring) :
         /\ hs[ring[i]].length = SmallestLength(hs, ring)
         /\ \A j \in 1..(i - 1) : hs[ring[j]].length # SmallestLength(hs, ring)]

\* An invocation of recurse is past its cap check and finds the header ring
\* non-empty.
FindsRingNonEmpty ==
  /\ pc = "search"
  /\ top.pc = "entry"
  /\ ~(max # 0 /\ Len(solutions) = max)
  /\ RingOrder(headers) # <<>>

\* C17 (MRV column choice): when recurse finds the header ring non-empty, the
\* column it covers is the first, walking next from the root, of those of
\* smallest length; if that length is 0 it returns without covering,
\* without recursing and without changing the accumulator.
MRVChoice ==
  [][FindsRingNonEmpty =>
       LET ring == RingOrder(headers)
       IN  IF SmallestLength(headers, ring) = 0
           THEN /\ Returning
                /\ UNCHANGED <<nodes, headers, covered, solutions>>
           ELSE /\ lastOp' = <<"cover", FirstSmallest(headers, ring)>>
                /\ covered' = Append(covered, FirstSmallest(headers, ring))
                /\ Len(stack') = Len(stack)]_vars

\* The innermost invocation has just covered the column it chose, which had
\* the length of a column further on in a ring that held a longer column too.
ChoseAmongTies ==
  /\ pc = "search"
  /\ top.pc = "rows"
  /\ lastOp = <<"cover", top.best>>
  /\ LET hs == entered[Len(entered)].headers
         ring == RingOrder(hs)
     IN  \E i, j, l \in 1..Len(ring) :
           /\ i < j
           /\ ring[i] = top.best
           /\ hs[ring[j]].length = hs[ring[i]].length
           /\ hs[ring[l]].length > hs[ring[i]].length

\* The elements of a finite set of numbers, in ascending order.
RECURSIVE Ascending(_)
Ascending(S) ==
  IF S = {} THEN <<>>
  ELSE LET least == CHOOSE x \in S : \A y \in S : x <= y
       IN  <<least>> \o Ascending(S \ {least})

\* The rows (0-based) with a nonzero cell in column c, and the columns with a
\* nonzero cell in row r (0-based), of matrix m.
RowsOf(m, c) == {r \in RowIds(m) : m[r + 1][c] # 0}

ColumnsOf(m, r) == {c \in ColumnIds(m) : m[r + 1][c] # 0}

\* The nodes created for the cells of the matrix (the others are the heads).
RowNodes(ns) == {n \in 1..Len(ns) : "rowNumber" \in DOMAIN ns[n]}

\* The outermost invocation of recurse is at its entry: the search starts.
SearchStarts == pc = "search" /\ Len(stack) = 1 /\ top.pc = "entry"

\* C18 (Builder result): when the search starts, next from the root visits
\* the headers in column order and prev in the opposite order; down from the
\* head of column c visits the nodes of the rows with a nonzero cell in c, in
\* ascending order; right from a node of row r visits the row's other
\* nonzero columns in ascending order, cyclically; each length is the number
\* of nonzero cells of its column.  (Column c of the source is header c + 1.)
BuilderResult ==
  SearchStarts =>
    LET n == Len(matrix[1])
    IN  /\ RingOrder(headers) = [c \in 1..n |-> c]
        /\ HeaderWalk(headers, headers[Root].prev, "prev") = [c \in 1..n |-> n + 1 - c]
        /\ \A c \in 1..n :
             LET column == ColumnNodes(nodes, headers, c)
             IN  /\ column \in Seq(RowNodes(nodes))
                 /\ [i \in 1..Len(column) |-> nodes[column[i]].rowNumber]
                      = Ascending(RowsOf(matrix, c))
                 /\ \A i \in 1..Len(column) : nodes[column[i]].header = c
                 /\ headers[c].length = Cardinality(RowsOf(matrix, c))
        /\ \A x \in RowNodes(nodes) :
             LET row == NodeWalk(nodes, x, nodes[x].right, "right")
                 c == nodes[x].header
                 others == ColumnsOf(matrix, nodes[x].rowNumber)
             IN  /\ \A i \in 1..Len(row) :
                      /\ row[i] \in RowNodes(nodes)
                      /\ nodes[row[i]].rowNumber = nodes[x].rowNumber
                 /\ [i \in 1..Len(row) |-> nodes[row[i]].header]
                      = Ascending({d \in others : d > c}) \o Ascending({d \in others : d < c})
        /\ Cardinality(RowNodes(nodes))
             = Cardinality({rc \in RowIds(matrix) \X ColumnIds(matrix) :
                              matrix[rc[1] + 1][rc[2]] # 0})

\* The search starts on a matrix with a row of three nonzero cells or more, a
\* column of two or more, and a zero cell.
BuiltWideRow ==
  /\ SearchStarts
  /\ \E r \in RowIds(matrix) : Cardinality(ColumnsOf(matrix, r)) >= 3
  /\ \E c \in ColumnIds(matrix) : Cardinality(RowsOf(matrix, c)) >= 2
  /\ \E r \in RowIds(matrix) : ColumnsOf(matrix, r) # ColumnIds(matrix)

\* The node reached from n by k steps in a direction.
RECURSIVE Follow(_, _, _, _)
Follow(ns, n, direction, k) ==
  IF k = 0 THEN n ELSE Follow(ns, ns[n][direction], direction, k - 1)

\* Following a direction from n comes back to n.
ComesBack(ns, n, direction) ==
  \E k \in 1..Len(ns) : Follow(ns, n, direction, k) = n

\* Node n is in the vertical ring of its column: it is the column's head or
\* is met walking down from the head.
Linked(ns, hs, n) ==
  \/ n = hs[ns[n].header].head
  \/ n \in AsSet(ColumnNodes(ns, hs, ns[n].header))

\* No step of a search changes a left or right link.
RowLinksKept ==
  (pc = "search" /\ pc' = "search") =>
    \A n \in 1..Len(nodes) :
      nodes'[n].left = nodes[n].left /\ nodes'[n].right = nodes[n].right

\* C19 (Ring closure of nodes), as claimed: in every state of a search, from
\* every node made for a cell, following right, left, down or up comes back
\* to the node; cover and uncover change no left or right link.
RingClosure ==
  /\ [](pc = "search" =>
          \A n \in RowNodes(nodes) :
            \A direction \in {"right", "left", "down", "up"} :
              ComesBack(nodes, n, direction))
  /\ [][RowLinksKept]_vars

\* C19, amended: following right or left comes back to every node, and cover
\* and uncover change no left or right link; following down or up comes back
\* to every node that is in the vertical ring of its column.  A node that
\* cover has taken out of its column keeps its up and down links and is not
\* met on the way from them until uncover puts it back.
LinkedRingClosure ==
  /\ [](pc = "search" =>
          \A n \in 1..Len(nodes) :
            /\ ComesBack(nodes, n, "right")
            /\ ComesBack(nodes, n, "left")
            /\ Linked(nodes, headers, n) =>
                 ComesBack(nodes, n, "down") /\ ComesBack(nodes, n, "up")
            /\ ~Linked(nodes, headers, n) =>
                 ~ComesBack(nodes, n, "down") /\ ~ComesBack(nodes, n, "up"))
  /\ [][RowLinksKept]_vars

\* In a search, a node made for a cell is out of its column's vertical ring
\* while that ring still holds two nodes made for cells.
NodeTakenOut ==
  /\ pc = "search"
  /\ \E n \in RowNodes(nodes) :
       /\ ~Linked(nodes, headers, n)
       /\ Len(ColumnNodes(nodes, headers, nodes[n].header)) >= 2

\* The first call was capped and the later call was given the same matrix
\* without a cap.
CappedThenAll ==
  /\ Len(returned) = 2
  /\ returned[1].max > 0
  /\ returned[2].max = 0
  /\ returned[2].matrix = returned[1].matrix

\* C20 (Capped result is a prefix of the uncapped result): the list returned
\* under the cap m > 0 is, entry by entry and in the same order, the first
\* min(m, total) entries of the list returned without a cap.
CappedIsPrefix ==
  CappedThenAll =>
    LET all == returned[2].result
        m == returned[1].max
    IN  returned[1].result = SubSeq(all, 1, IF m < Len(all) THEN m ELSE Len(all))

\* Both calls returned, the cap being 2 or more and smaller than the number
\* of solutions found without it.
CapCutShort ==
  /\ CappedThenAll
  /\ returned[1].max >= 2
  /\ Len(returned[2].result) > returned[1].max

====
